---- MODULE Spec2Model ----
(***************************************************************************)
(* Model of src/types.rs of morph: the Unit algebra (canonicalising        *)
(* multiplication and division of products of named unit powers), the      *)
(* Quantity arithmetic built on it, and the construction helpers of the    *)
(* AST Node (range merging, binary operators, compound assignment).        *)
(***************************************************************************)
EXTENDS Integers, Sequences, FiniteSets, TLC

VARIABLES ua, ub, ures, uop,
          qa, qb, qres, qop,
          node, nop, panicked

vars == <<ua, ub, ures, uop, qa, qb, qres, qop, node, nop, panicked>>
uvars == <<ua, ub, ures, uop>>
qvars == <<qa, qb, qres, qop>>
nvars == <<node, nop, panicked>>

(* ---------------------------------------------------------------------- *)
(* Bounds                                                                  *)
(* ---------------------------------------------------------------------- *)
\* largest absolute exponent an atom of a held Unit may carry
MaxExp == 2
\* largest numerator / denominator of a held Quantity value
MaxVal == 3
\* largest byte offset of a source range
MaxOff == 3
\* deepest Node tree held
MaxDepth == 1

\* unit names in use, and the ordering str::cmp gives them (byte-wise)
Names == {"kg", "m", "s"}
NameOrd == [n \in Names |-> CASE n = "kg" -> 1 [] n = "m" -> 2 [] n = "s" -> 3]

(* ---------------------------------------------------------------------- *)
(* Option<T>                                                               *)
(* ---------------------------------------------------------------------- *)
None == <<>>
Some(x) == <<x>>

(* ---------------------------------------------------------------------- *)
(* Decimal: an exact rational n/d in lowest terms with d > 0               *)
(* ---------------------------------------------------------------------- *)
Abs(x) == IF x < 0 THEN -x ELSE x

RECURSIVE Gcd(_, _)
Gcd(x, y) == IF y = 0 THEN x ELSE Gcd(y, x % y)

Dec(n, d) ==
    LET s == IF d < 0 THEN -1 ELSE 1
        g == Gcd(Abs(n), Abs(d))
    IN [n |-> (s * n) \div g, d |-> (s * d) \div g]

num(i) == Dec(i, 1)
is_zero(x) == x.n = 0
is_sign_negative(x) == x.n < 0
dec_add(x, y) == Dec(x.n * y.d + y.n * x.d, x.d * y.d)
dec_mul(x, y) == Dec(x.n * y.n, x.d * y.d)
dec_div(x, y) == Dec(x.n * y.d, x.d * y.n)

(* ---------------------------------------------------------------------- *)
(* UnitAtom and Unit                                                       *)
(* ---------------------------------------------------------------------- *)
base(name) == [name |-> name, exp |-> num(1)]

none == <<>>

from_atom(value) == <<value>>

\* slice::sort_by for slices of at most 20 elements: insertion sort that
\* inserts v[i] into the sorted prefix v[1..i-1], shifting it left while
\* compare[v[i], v[j]] is Less. compare is the closure, as a function on
\* pairs of elements of v.
insert_tail(v, i, compare) ==
    LET tmp == v[i]
        p == CHOOSE p \in 1..i :
                /\ \A j \in p..(i - 1) : compare[tmp, v[j]] = "Less"
                /\ (p = 1 \/ compare[tmp, v[p - 1]] # "Less")
    IN [k \in 1..Len(v) |->
          IF k < p THEN v[k]
          ELSE IF k = p THEN tmp
          ELSE IF k <= i THEN v[k - 1]
          ELSE v[k]]

sort_by(v, compare) ==
    LET f[i \in 1..Len(v)] ==
          IF i = 1 THEN v ELSE insert_tail(f[i - 1], i, compare)
    IN IF Len(v) < 2 THEN v ELSE f[Len(v)]

Elems(v) == {v[i] : i \in 1..Len(v)}

name_cmp_equal(a, b) == "Equal"

\* |a, b| a.name.cmp(b.name)
name_cmp(a, b) ==
    IF NameOrd[a.name] < NameOrd[b.name] THEN "Less"
    ELSE IF NameOrd[a.name] > NameOrd[b.name] THEN "Greater"
    ELSE "Equal"

sign_cmp_flipped(a, b) == IF is_sign_negative(a.exp) THEN "Less" ELSE "Greater"

\* |a, _| match a.exp.is_sign_negative() { true => Greater, false => Less }
\* (the second argument is ignored, so this is not a total order: two
\* non-negative atoms are each Less than the other)
sign_cmp(a, b) == IF is_sign_negative(a.exp) THEN "Greater" ELSE "Less"

concat_self_twice(self, rhs) == self \o self

\* the two push loops
concat(self, rhs) == self \o rhs

merge_step_overwrite(st, u) ==
    IF st.current # None
    THEN LET c == st.current[1] IN
         IF c.name = u.name
         THEN [st EXCEPT !.current = Some([c EXCEPT !.exp = u.exp])]
         ELSE [current |-> Some(u), result |-> Append(st.result, c)]
    ELSE [st EXCEPT !.current = Some(u)]

\* the scan over merged: st.current is the Option<UnitAtom> being
\* accumulated, st.result the atoms already emitted
merge_step(st, u) ==
    IF st.current # None
    THEN LET c == st.current[1] IN
         IF c.name = u.name
         THEN [st EXCEPT !.current = Some([c EXCEPT !.exp = dec_add(c.exp, u.exp)])]
         ELSE [current |-> Some(u), result |-> Append(st.result, c)]
    ELSE [st EXCEPT !.current = Some(u)]

merge_adjacent(merged) ==
    LET scan[i \in 0..Len(merged)] ==
          IF i = 0 THEN [current |-> None, result |-> <<>>]
          ELSE merge_step(scan[i - 1], merged[i])
        last == scan[Len(merged)]
    IN IF last.current # None THEN Append(last.result, last.current[1])
       ELSE last.result

retain_all(result) == result

\* result.retain(|unit| !unit.exp.is_zero())
retain(result) == SelectSeq(result, LAMBDA unit : ~is_zero(unit.exp))

Unit_mul(self, rhs) ==
    LET both == concat(self, rhs)
        merged == sort_by(both,
                    [a \in Elems(both), b \in Elems(both) |-> name_cmp(a, b)])
        result == retain(merge_adjacent(merged))
    IN sort_by(result,
               [a \in Elems(result), b \in Elems(result) |-> sign_cmp(a, b)])

Unit_div(self, rhs) ==
    LET res == [i \in 1..Len(rhs) |->
                  [rhs[i] EXCEPT !.exp = dec_mul(rhs[i].exp, num(-1))]]
    IN Unit_mul(self, res)

(* ---------------------------------------------------------------------- *)
(* Quantity                                                                *)
(* ---------------------------------------------------------------------- *)
Quantity_new(value, unit) == [value |-> value, unit |-> unit]

Quantity_num(value) == [value |-> value, unit |-> none]

Quantity_from_atom(unit) == [value |-> num(1), unit |-> from_atom(unit)]

Quantity_from_unit(unit) == [value |-> num(1), unit |-> unit]

Quantity_add_unchecked(self, rhs) ==
    Some([self EXCEPT !.value = dec_add(self.value, rhs.value)])

Quantity_add(self, rhs) ==
    IF self.unit = rhs.unit
    THEN Some([self EXCEPT !.value = dec_add(self.value, rhs.value)])
    ELSE None

Quantity_sub(self, rhs) ==
    LET res == [rhs EXCEPT !.value = dec_mul(rhs.value, num(-1))]
    IN Quantity_add(self, res)

Quantity_mul(self, rhs) ==
    LET res == Unit_mul(self.unit, rhs.unit)
    IN Some(Quantity_new(dec_mul(self.value, rhs.value), res))

Quantity_div_swapped_units(self, rhs) ==
    IF is_zero(rhs.value)
    THEN None
    ELSE LET res == Unit_div(rhs.unit, self.unit)
         IN Some(Quantity_new(dec_div(self.value, rhs.value), res))

Quantity_div(self, rhs) ==
    IF is_zero(rhs.value)
    THEN None
    ELSE LET res == Unit_div(self.unit, rhs.unit)
         IN Some(Quantity_new(dec_div(self.value, rhs.value), res))

(* ---------------------------------------------------------------------- *)
(* Node                                                                    *)
(* ---------------------------------------------------------------------- *)
\* Range<usize>
Range(start, end) == [start |-> start, end |-> end]

merge_ranges(r1, r2) ==
    LET swap == r2.start < r1.start
        smaller == IF swap THEN r2 ELSE r1
        bigger == IF swap THEN r1 ELSE r2
    IN Range(smaller.start, bigger.end)

Node_new(typ, range) == [typ |-> typ, range |-> range]

Node_err(range) == [typ |-> [tag |-> "Err"], range |-> range]

BinOps == {"Add", "Sub", "Mul", "Div"}
AssignOps == {"Assign", "AddAssign", "SubAssign", "MulAssign", "DivAssign"}

\* impl_node_op!(binop: $op)
Node_binop(op, self, rhs) ==
    LET range == merge_ranges(self.range, rhs.range)
        typ == [tag |-> op, left |-> self, right |-> rhs]
    IN [typ |-> typ, range |-> range]

\* the test `if let NodeType::Unit(name) = self.typ` of Node::assign and of
\* impl_node_op!(assign: $op)
is_unit_leaf(self) == self.typ.tag = "Unit"

\* the then-branch of Node::assign and of impl_node_op!(assign: $op)
Node_assign(op, self, other) ==
    LET range == merge_ranges(self.range, other.range)
        typ == [tag |-> op, name |-> self.typ.name, val |-> other]
    IN [typ |-> typ, range |-> range]

(* ---------------------------------------------------------------------- *)
(* State after construction                                                *)
(* ---------------------------------------------------------------------- *)
Ranges == {r \in [start : 0..MaxOff, end : 0..MaxOff] : r.start < r.end}

LeafTypes == {[tag |-> "Unit", name |-> "x"], [tag |-> "Num", value |-> num(1)]}

Leaves == {Node_new(t, r) : t \in LeafTypes, r \in Ranges} \cup
          {Node_err(r) : r \in Ranges}

RECURSIVE Depth(_)
Depth(n) ==
    IF n.typ.tag \in BinOps
    THEN 1 + (IF Depth(n.typ.left) > Depth(n.typ.right)
              THEN Depth(n.typ.left) ELSE Depth(n.typ.right))
    ELSE IF n.typ.tag \in AssignOps THEN 1 + Depth(n.typ.val)
    ELSE 0

Init ==
    /\ ua = none /\ ub = none /\ ures = none /\ uop = "init"
    /\ qa = Quantity_num(num(0)) /\ qb = Quantity_num(num(0))
    /\ qres = None /\ qop = "init"
    /\ node = Node_new([tag |-> "Num", value |-> num(1)], Range(0, 1))
    /\ nop = "init" /\ panicked = FALSE

(* ---------------------------------------------------------------------- *)
(* Unit algebra: two held Units, combined by * and /                       *)
(* ---------------------------------------------------------------------- *)
WithinExp(u) == \A i \in 1..Len(u) : Abs(u[i].exp.n) <= MaxExp

SetReg(r, u) ==
    /\ ua' = IF r = "a" THEN u ELSE ua
    /\ ub' = IF r = "b" THEN u ELSE ub

UnitNone ==
    /\ \E r \in {"a", "b"} : SetReg(r, none)
    /\ ures' = none /\ uop' = "none"
    /\ UNCHANGED <<qvars, nvars>>

UnitFrom ==
    /\ \E r \in {"a", "b"}, name \in Names : SetReg(r, from_atom(base(name)))
    /\ ures' = none /\ uop' = "from"
    /\ UNCHANGED <<qvars, nvars>>

UnitMul ==
    /\ WithinExp(Unit_mul(ua, ub))
    /\ ures' = Unit_mul(ua, ub) /\ uop' = "mul"
    /\ UNCHANGED <<ua, ub, qvars, nvars>>

UnitDiv ==
    /\ WithinExp(Unit_div(ua, ub))
    /\ ures' = Unit_div(ua, ub) /\ uop' = "div"
    /\ UNCHANGED <<ua, ub, qvars, nvars>>

\* the product or quotient is moved into one of the held Units
UnitStore ==
    /\ uop \in {"mul", "div"}
    /\ \E r \in {"a", "b"} : SetReg(r, ures)
    /\ ures' = none /\ uop' = "store"
    /\ UNCHANGED <<qvars, nvars>>

NextUnit == UnitNone \/ UnitFrom \/ UnitMul \/ UnitDiv \/ UnitStore

SpecUnit == Init /\ [][NextUnit]_vars

(* ---------------------------------------------------------------------- *)
(* Quantity arithmetic: an accumulated Quantity qa and an operand qb       *)
(* ---------------------------------------------------------------------- *)
Values == {num(i) : i \in (-MaxVal)..MaxVal}

\* unit names the quantities are built from
QuantityNames == {"m", "s"}

WithinVal(q) ==
    /\ Abs(q.value.n) <= MaxVal /\ q.value.d <= MaxVal
    /\ WithinExp(q.unit)

Allowed(r) == IF r = None THEN TRUE ELSE WithinVal(r[1])

QuantityNum ==
    /\ \E v \in Values : qb' = Quantity_num(v)
    /\ qres' = None /\ qop' = "num"
    /\ UNCHANGED <<qa, uvars, nvars>>

QuantityNew ==
    /\ \E v \in Values, name \in QuantityNames :
          qb' = Quantity_new(v, from_atom(base(name)))
    /\ qres' = None /\ qop' = "new"
    /\ UNCHANGED <<qa, uvars, nvars>>

QuantityFrom ==
    /\ \E name \in QuantityNames : qb' = Quantity_from_atom(base(name))
    /\ qres' = None /\ qop' = "from"
    /\ UNCHANGED <<qa, uvars, nvars>>

QuantityAdd ==
    /\ Allowed(Quantity_add(qa, qb))
    /\ qres' = Quantity_add(qa, qb) /\ qop' = "add"
    /\ UNCHANGED <<qa, qb, uvars, nvars>>

QuantitySub ==
    /\ Allowed(Quantity_sub(qa, qb))
    /\ qres' = Quantity_sub(qa, qb) /\ qop' = "sub"
    /\ UNCHANGED <<qa, qb, uvars, nvars>>

QuantityMul ==
    /\ Allowed(Quantity_mul(qa, qb))
    /\ qres' = Quantity_mul(qa, qb) /\ qop' = "mul"
    /\ UNCHANGED <<qa, qb, uvars, nvars>>

QuantityDiv ==
    /\ Allowed(Quantity_div(qa, qb))
    /\ qres' = Quantity_div(qa, qb) /\ qop' = "div"
    /\ UNCHANGED <<qa, qb, uvars, nvars>>

\* a Some(result) is unwrapped into the accumulated Quantity
QuantityStore ==
    /\ qres # None
    /\ qa' = qres[1] /\ qres' = None /\ qop' = "store"
    /\ UNCHANGED <<qb, uvars, nvars>>

NextQuantity ==
    \/ QuantityNum \/ QuantityNew \/ QuantityFrom
    \/ QuantityAdd \/ QuantitySub \/ QuantityMul \/ QuantityDiv
    \/ QuantityStore

SpecQuantity == Init /\ [][NextQuantity]_vars

(* ---------------------------------------------------------------------- *)
(* Node construction: one Node under construction, operands are leaves     *)
(* ---------------------------------------------------------------------- *)
NodeNew ==
    /\ ~panicked
    /\ \E t \in LeafTypes, r \in Ranges : node' = Node_new(t, r)
    /\ nop' = "new"
    /\ UNCHANGED <<panicked, uvars, qvars>>

NodeErr ==
    /\ ~panicked
    /\ \E r \in Ranges : node' = Node_err(r)
    /\ nop' = "err"
    /\ UNCHANGED <<panicked, uvars, qvars>>

\* node op leaf
NodeBinopLeft ==
    /\ ~panicked
    /\ Depth(node) < MaxDepth
    /\ \E op \in BinOps, rhs \in Leaves :
          /\ node' = Node_binop(op, node, rhs)
          /\ nop' = op
    /\ UNCHANGED <<panicked, uvars, qvars>>

\* leaf op node
NodeBinopRight ==
    /\ ~panicked
    /\ Depth(node) < MaxDepth
    /\ \E op \in BinOps, lhs \in Leaves :
          /\ node' = Node_binop(op, lhs, node)
          /\ nop' = op
    /\ UNCHANGED <<panicked, uvars, qvars>>

\* node.assign(other), node += other, -=, *=, /= on a Unit(name) leaf
NodeAssign ==
    /\ ~panicked
    /\ is_unit_leaf(node)
    /\ MaxDepth >= 1
    /\ \E op \in AssignOps, other \in Leaves :
          /\ node' = Node_assign(op, node, other)
          /\ nop' = op
    /\ UNCHANGED <<panicked, uvars, qvars>>

\* the same on any other node: panic!, the node is left as it was
NodeAssignPanic ==
    /\ ~panicked
    /\ ~is_unit_leaf(node)
    /\ \E op \in AssignOps : nop' = op
    /\ panicked' = TRUE
    /\ UNCHANGED <<node, uvars, qvars>>

NextNode ==
    \/ NodeNew \/ NodeErr \/ NodeBinopLeft \/ NodeBinopRight
    \/ NodeAssign \/ NodeAssignPanic

SpecNode == Init /\ [][NextNode]_vars

(* ---------------------------------------------------------------------- *)
(* Properties of the Unit algebra                                          *)
(* ---------------------------------------------------------------------- *)
\* net exponent of name n in u (0 when n is absent)
NetExp(u, n) ==
    LET sum[i \in 0..Len(u)] ==
          IF i = 0 THEN num(0)
          ELSE IF u[i].name = n THEN dec_add(sum[i - 1], u[i].exp)
          ELSE sum[i - 1]
    IN sum[Len(u)]

Denote(u) == [n \in Names |-> NetExp(u, n)]

AtomNames(u) == {u[i].name : i \in 1..Len(u)}
AtomSet(u) == {u[i] : i \in 1..Len(u)}
HasNegative(u) == \E i \in 1..Len(u) : is_sign_negative(u[i].exp)
HasPositive(u) == \E i \in 1..Len(u) : ~is_sign_negative(u[i].exp)
Held == {ua, ub, ures}

\* C1: two Units built from Unit::none() and base atoms by multiplications
\* and divisions that have the same net exponent for every name are the
\* same atom sequence, and adding two quantities carrying them is Some.
C1_CanonicalFormUnique ==
    \A x \in Held, y \in Held :
        Denote(x) = Denote(y) =>
            /\ x = y
            /\ Quantity_add(Quantity_from_unit(x), Quantity_from_unit(y)) # None

\* a three-atom quotient with atoms of both signs equals, atom for atom, a
\* Unit that was built and stored earlier by other operations
C1_Witness ==
    /\ uop = "div" /\ ua # ub
    /\ Len(ures) = 3 /\ HasNegative(ures) /\ HasPositive(ures)
    /\ Denote(ures) = Denote(ub) /\ ures = ub

SignPartitioned(u) ==
    \A i \in 1..Len(u), j \in 1..Len(u) :
        (is_sign_negative(u[i].exp) /\ ~is_sign_negative(u[j].exp)) => j < i

\* C2: in the result of every Unit multiplication and division every atom
\* with a non-negative exponent precedes every atom with a negative one.
C2_SignPartition ==
    uop \in {"mul", "div"} => SignPartitioned(ures)

C2_Witness ==
    /\ uop = "mul" /\ Len(ures) = 3
    /\ HasNegative(ures) /\ HasPositive(ures)
    /\ HasNegative(ua) /\ HasPositive(ub)

\* atoms of the same sign group are in ascending name order
GroupsAscending(u) ==
    \A i \in 1..Len(u), j \in 1..Len(u) :
        (i < j /\ is_sign_negative(u[i].exp) = is_sign_negative(u[j].exp))
            => NameOrd[u[i].name] < NameOrd[u[j].name]

\* C3: the sign re-ordering of a multiplication is a stable partition:
\* within the non-negative group and within the negative group the atoms
\* keep the ascending name order of the merge (kg, s, m^-1).
C3_StablePartition ==
    uop = "mul" => GroupsAscending(ures)

\* C5: A / A is Unit::none(), and a name whose exponents sum to zero is
\* absent from the product (quotient).
C5_Cancellation ==
    /\ (uop = "div" /\ ua = ub) => ures = none
    /\ uop = "mul" =>
          \A n \in Names :
              is_zero(dec_add(NetExp(ua, n), NetExp(ub, n)))
                  => n \notin AtomNames(ures)
    /\ uop = "div" =>
          \A n \in Names :
              NetExp(ua, n) = NetExp(ub, n) => n \notin AtomNames(ures)

C5_Witness ==
    /\ uop = "div" /\ ua = ub /\ Len(ua) = 3 /\ HasNegative(ua)
    /\ ures = none

\* C8: for A and B with no shared atom name, A * B and B * A hold exactly
\* the same atoms.
C8_CommutativeMerge ==
    (uop = "mul" /\ AtomNames(ua) \cap AtomNames(ub) = {})
        => AtomSet(ures) = AtomSet(Unit_mul(ub, ua))

C8_Witness ==
    /\ uop = "mul" /\ AtomNames(ua) \cap AtomNames(ub) = {}
    /\ Len(ua) = 2 /\ Len(ub) = 1 /\ Len(ures) = 3
    /\ HasNegative(ures)

\* C9: A * Unit::none() and Unit::none() * A are A, atom for atom.
C9_NoneIsIdentity ==
    /\ (uop = "mul" /\ ub = none) => ures = ua
    /\ (uop = "mul" /\ ua = none) => ures = ub

C9_Witness ==
    /\ uop = "mul" /\ ub = none /\ Len(ua) = 3
    /\ HasNegative(ua) /\ HasPositive(ua) /\ ures = ua

(* ---------------------------------------------------------------------- *)
(* Properties of the Quantity arithmetic                                   *)
(* ---------------------------------------------------------------------- *)
Sum(x, y) == Dec(x.n * y.d + y.n * x.d, x.d * y.d)
Difference(x, y) == Dec(x.n * y.d - y.n * x.d, x.d * y.d)
Quotient(x, y) == Dec(x.n * y.d, x.d * y.n)

\* C6: a + b and a - b are Some exactly when a.unit = b.unit; the result
\* then has a's unit and the sum (difference) of the values; with different
\* units the outcome is None.
C6_AddSubUnitGate ==
    /\ qop \in {"add", "sub"} => (qres # None <=> qa.unit = qb.unit)
    /\ (qop = "add" /\ qa.unit = qb.unit) =>
          qres = Some([value |-> Sum(qa.value, qb.value), unit |-> qa.unit])
    /\ (qop = "sub" /\ qa.unit = qb.unit) =>
          qres = Some([value |-> Difference(qa.value, qb.value),
                       unit |-> qa.unit])
    /\ (qop \in {"add", "sub"} /\ qa.unit # qb.unit) => qres = None

\* a non-zero difference of two quantities of the same non-empty unit
C6_Witness ==
    /\ qop = "sub" /\ qres # None
    /\ qa.unit # none /\ qa.unit = qb.unit
    /\ ~is_zero(qb.value) /\ qres[1].value # qa.value

\* C7: a / b is None exactly when b.value is zero; otherwise its value is
\* a.value / b.value and its unit is a.unit / b.unit.
C7_DivByZero ==
    qop = "div" =>
        /\ qres = None <=> is_zero(qb.value)
        /\ ~is_zero(qb.value) =>
              qres = Some([value |-> Quotient(qa.value, qb.value),
                           unit |-> Unit_mul(qa.unit,
                                      [i \in 1..Len(qb.unit) |->
                                         [name |-> qb.unit[i].name,
                                          exp |-> Difference(num(0), qb.unit[i].exp)]])])

C7_Witness ==
    /\ qop = "div" /\ qres # None
    /\ qa.unit # none /\ qb.unit # none /\ qa.unit # qb.unit
    /\ qres[1].value.d > 1 /\ HasNegative(qres[1].unit)

(* ---------------------------------------------------------------------- *)
(* Properties of the Node construction                                     *)
(* ---------------------------------------------------------------------- *)
Min(x, y) == IF x < y THEN x ELSE y
Max(x, y) == IF x > y THEN x ELSE y
Span(r1, r2) == Range(Min(r1.start, r2.start), Max(r1.end, r2.end))

\* C4: a binary-operator node spans from the smaller of its operands' start
\* offsets to the larger of their end offsets, whatever the two ranges are
\* and in whichever order the operands come.
C4_MergedRangeIsSpan ==
    nop \in BinOps =>
        node.range = Span(node.typ.left.range, node.typ.right.range)

\* C10: a compound assignment on a Unit(name) node replaces it by the
\* *Assign(name, rhs) node whose range spans both nodes; on any other node
\* it panics and builds no *Assign node.
C10_AssignOnUnitOnly ==
    [][(nop' \in AssignOps) =>
          IF is_unit_leaf(node)
          THEN /\ ~panicked'
               /\ node'.typ.tag = nop'
               /\ node'.typ.name = node.typ.name
               /\ node'.typ.val \in Leaves
               /\ node'.range = Span(node.range, node'.typ.val.range)
          ELSE /\ panicked'
               /\ node' = node]_vars

====
